---------------------------- MODULE Spec2Model ----------------------------
(***************************************************************************)
(* Model of the Channel (bounded, RingBuffer storage), and of the          *)
(* ThreadPool built on it, of cpp-golang-style-concurrency.                *)
(*                                                                         *)
(* Threads run the member functions one source statement at a time.  A     *)
(* statement executed while the caller holds the channel's mutex up to the *)
(* unlock at the end of the function is one step when nothing another      *)
(* thread does without the mutex can be told apart in between.             *)
(*                                                                         *)
(* The threads that call a Channel are interchangeable: `entered` counts    *)
(* the threads that have made a call, and the next thread to make its      *)
(* first call is the lowest-numbered one that has made none.  A call that  *)
(* starts by locking the mutex starts when it gets the mutex.              *)
(*                                                                         *)
(* Channel::Close writes `runnable` and calls notify_all without taking    *)
(* the mutex, so every read of `runnable` in Add and Get races with it.    *)
(* A racing read returns the old or the new value: `view[t]` is what       *)
(* thread t last observed, a thread that has observed the write keeps      *)
(* observing it, and once Close has returned every thread observes it.     *)
(***************************************************************************)
EXTENDS Integers, Sequences, FiniteSets, TLC

\* ------------------------------------------------------------- bounds
NumThreads == 2
MaxCalls == 4
MaxCap == 2
\* Stop() calls, the destructor's included
MaxStops == 2
\* width of size_t in the model (the arithmetic of num_data wraps at 2^SizeBits)
SizeBits == 8

Threads == 1..NumThreads
SizeMod == 2 ^ SizeBits

\* std::nullopt, and the value of a default-constructed slot
NoValue == 0
\* std::mutex mtx not held
Unlocked == 0

VARIABLES
    \* RingBuffer
    size_buffer, buffer, num_data, ptr_head, ptr_tail,
    \* Channel
    runnable, mtx,
    \* threads: program counter, role, Add's argument, Get's result,
    \* the value of Channel::runnable the thread observes
    pc, role, arg, ret, view,
    \* ThreadPool
    pool_runnable, threads, join_i, executed, future,
    \* WaitGroup: the counter, and the calls of Add and of Done made so far
    visit, wg_adds, wg_dones,
    \* history
    calls, inserted, received, late, closeDone, stops, entered

ringVars == <<size_buffer, buffer, num_data, ptr_head, ptr_tail>>
chanVars == <<runnable, mtx>>
poolVars == <<pool_runnable, threads, join_i, executed, future, stops>>
wgVars == <<visit, wg_adds, wg_dones>>
histVars == <<calls, inserted, received, late, closeDone, entered>>
vars == <<size_buffer, buffer, num_data, ptr_head, ptr_tail, runnable, mtx,
          pc, role, arg, ret, view, pool_runnable, threads, join_i, executed,
          future, visit, wg_adds, wg_dones,
          calls, inserted, received, late, closeDone, stops, entered>>

\* ---------------------------------------------------------- RingBuffer

\* RingBuffer(size_buffer): every slot default-constructed, indices zero
RingInit(n) ==
    /\ size_buffer = n
    /\ buffer = [i \in 0..(n - 1) |-> NoValue]
    /\ num_data = 0
    /\ ptr_head = 0
    /\ ptr_tail = 0

\* emplace_back writing the slot at ptr_head
emplace_back_at_head(v) ==
    /\ size_buffer > 0
    /\ buffer' = [buffer EXCEPT ![ptr_head] = v]
    /\ num_data' = (num_data + 1) % SizeMod
    /\ ptr_tail' = (ptr_tail + 1) % size_buffer
    /\ UNCHANGED <<size_buffer, ptr_head>>

\* emplace_back: undefined for size_buffer = 0 (null buffer, modulo by zero)
emplace_back(v) ==
    /\ size_buffer > 0
    /\ buffer' = [buffer EXCEPT ![ptr_tail] = v]
    /\ num_data' = (num_data + 1) % SizeMod
    /\ ptr_tail' = (ptr_tail + 1) % size_buffer
    /\ UNCHANGED <<size_buffer, ptr_head>>

\* a pop_front that leaves ptr_head where it is
pop_front_keeps_head ==
    /\ size_buffer > 0
    /\ num_data' = (num_data - 1) % SizeMod
    /\ UNCHANGED <<size_buffer, buffer, ptr_head, ptr_tail>>

\* pop_front: undefined for size_buffer = 0
pop_front ==
    /\ size_buffer > 0
    /\ num_data' = (num_data - 1) % SizeMod
    /\ ptr_head' = (ptr_head + 1) % size_buffer
    /\ UNCHANGED <<size_buffer, buffer, ptr_tail>>

front == buffer[ptr_head]

size == num_data

max_size == size_buffer

\* ------------------------------------------------------------- Channel

\* the values a read of Channel::runnable by thread t can return
Observable(t) ==
    IF ~view[t] THEN {FALSE}
    ELSE IF runnable THEN {TRUE}
    ELSE {TRUE, FALSE}

\* a notify_all that wakes nobody
notify_nobody(p) == p

\* cv.notify_all(): every thread blocked in cv.wait is made runnable again
notify_all(p) ==
    [u \in Threads |->
        IF p[u] = "add_wait" THEN "add_relock"
        ELSE IF p[u] = "get_wait" THEN "get_relock"
        ELSE p[u]]

\* where a channel call returns to
AddRet(t) == IF role[t] = "main" THEN "m_idle" ELSE "idle"
GetRet(t) == IF role[t] = "worker" THEN "w_got" ELSE "idle"
CloseRet(t) == IF role[t] = "main" THEN "stop_join" ELSE "idle"

\* Add's predicate with <= for <, and Get's without the test of runnable
AddPredicateOffByOne(r) == ~r \/ size <= max_size
GetPredicateNoClose(r) == size > 0

\* the wait predicates of Add and Get, on the value r read from runnable
AddPredicate(r) == ~r \/ size < max_size
GetPredicate(r) == ~r \/ size > 0

\* std::unique_lock lock(mtx) in a worker's Get, and cv.wait's re-lock on
\* wake-up
Lock(t, from, to) ==
    /\ pc[t] = from
    /\ mtx = Unlocked
    /\ mtx' = t
    /\ pc' = [pc EXCEPT ![t] = to]
    /\ UNCHANGED <<ringVars, runnable, role, wgVars, arg, ret, view, poolVars, histVars>>

AddRelock(t) == Lock(t, "add_relock", "add_pred")
GetLock(t) == Lock(t, "get_lock", "get_pred")
GetRelock(t) == Lock(t, "get_relock", "get_pred")

\* cv.wait(lock, pred): one evaluation of the predicate, mutex held
AddPred(t) ==
    /\ pc[t] = "add_pred"
    /\ \E r \in Observable(t) :
        /\ view' = [view EXCEPT ![t] = r]
        /\ pc' = [pc EXCEPT ![t] = IF AddPredicate(r) THEN "add_body" ELSE "add_block"]
    /\ UNCHANGED <<ringVars, chanVars, role, wgVars, arg, ret, poolVars, histVars>>

GetPred(t) ==
    /\ pc[t] = "get_pred"
    /\ \E r \in Observable(t) :
        /\ view' = [view EXCEPT ![t] = r]
        /\ pc' = [pc EXCEPT ![t] = IF GetPredicate(r) THEN "get_body" ELSE "get_block"]
    /\ UNCHANGED <<ringVars, chanVars, role, wgVars, arg, ret, poolVars, histVars>>

\* cv.wait(lock): the predicate was false; atomically unlock and block
Block(t, from, to) ==
    /\ pc[t] = from
    /\ mtx' = Unlocked
    /\ pc' = [pc EXCEPT ![t] = to]
    /\ UNCHANGED <<ringVars, runnable, role, wgVars, arg, ret, view, poolVars, histVars>>

AddBlock(t) == Block(t, "add_block", "add_wait")
GetBlock(t) == Block(t, "get_block", "get_wait")

\* a spurious wake-up of cv.wait
SpuriousWake(t) ==
    /\ pc[t] \in {"add_wait", "get_wait"}
    /\ pc' = [pc EXCEPT ![t] = IF pc[t] = "add_wait" THEN "add_relock" ELSE "get_relock"]
    /\ UNCHANGED <<ringVars, chanVars, role, wgVars, arg, ret, view, poolVars, histVars>>

\* Add after the wait, inserting without the test of runnable
AddBodyAlwaysInserts(t) ==
    /\ pc[t] = "add_body"
    /\ \E r \in Observable(t) : view' = [view EXCEPT ![t] = r]
    /\ emplace_back(arg[t])
    /\ inserted' = Append(inserted, arg[t])
    /\ pc' = [notify_all(pc) EXCEPT ![t] = AddRet(t)]
    /\ mtx' = Unlocked
    /\ UNCHANGED <<runnable, role, wgVars, arg, ret, poolVars, calls, received, late, closeDone,
                   entered>>

\* Add after the wait: if (runnable) emplace_back; notify_all; unlock; return
AddBody(t) ==
    /\ pc[t] = "add_body"
    /\ \E r \in Observable(t) :
        /\ view' = [view EXCEPT ![t] = r]
        /\ IF r
           THEN /\ emplace_back(arg[t])
                /\ inserted' = Append(inserted, arg[t])
           ELSE UNCHANGED <<ringVars, inserted>>
    /\ pc' = [notify_all(pc) EXCEPT ![t] = AddRet(t)]
    /\ mtx' = Unlocked
    /\ UNCHANGED <<runnable, role, wgVars, arg, ret, poolVars, calls, received, late, closeDone,
                   entered>>

\* Get after the wait: if (!runnable) return nullopt; front; pop_front;
\* notify_all; unlock; return
GetBody(t) ==
    /\ pc[t] = "get_body"
    /\ \E r \in Observable(t) :
        /\ view' = [view EXCEPT ![t] = r]
        /\ IF ~r
           THEN /\ ret' = [ret EXCEPT ![t] = NoValue]
                /\ pc' = [pc EXCEPT ![t] = GetRet(t)]
                /\ UNCHANGED <<ringVars, received>>
           ELSE /\ ret' = [ret EXCEPT ![t] = front]
                /\ pop_front
                /\ received' = Append(received, front)
                /\ pc' = [notify_all(pc) EXCEPT ![t] = GetRet(t)]
    /\ mtx' = Unlocked
    /\ UNCHANGED <<runnable, role, wgVars, arg, poolVars, calls, inserted, late, closeDone,
                   entered>>

\* a Close that flips the flag
CloseWriteToggle(t) ==
    /\ pc[t] = "close_write"
    /\ runnable' = ~runnable
    /\ view' = [view EXCEPT ![t] = runnable']
    /\ pc' = [pc EXCEPT ![t] = "close_notify"]
    /\ UNCHANGED <<ringVars, mtx, role, wgVars, arg, ret, poolVars, histVars>>

\* Close, first statement: runnable = false (the mutex is not taken)
CloseWrite(t) ==
    /\ pc[t] = "close_write"
    /\ runnable' = FALSE
    /\ view' = [view EXCEPT ![t] = FALSE]
    /\ pc' = [pc EXCEPT ![t] = "close_notify"]
    /\ UNCHANGED <<ringVars, mtx, role, wgVars, arg, ret, poolVars, histVars>>

\* Close, second statement: cv.notify_all(), and the return
CloseNotify(t) ==
    /\ pc[t] = "close_notify"
    /\ pc' = [notify_all(pc) EXCEPT ![t] = CloseRet(t)]
    /\ view' = [u \in Threads |-> FALSE]
    /\ closeDone' = TRUE
    /\ UNCHANGED <<ringVars, chanVars, role, wgVars, arg, ret, poolVars, calls, inserted, received,
                   late, entered>>

\* ------------------------------------------------- callers of a Channel

\* a client thread may make a call: it has made one before, or it is the
\* lowest-numbered thread that has made none
MayCall(t) ==
    /\ role[t] = "client"
    /\ pc[t] = "idle"
    /\ calls < MaxCalls
    /\ t <= entered + 1
    /\ calls' = calls + 1
    /\ entered' = IF t > entered THEN t ELSE entered

\* Add(v): std::unique_lock lock(mtx)
CallAdd(t) ==
    /\ MayCall(t)
    /\ mtx = Unlocked
    /\ mtx' = t
    /\ arg' = [arg EXCEPT ![t] = calls + 1]
    /\ pc' = [pc EXCEPT ![t] = "add_pred"]
    /\ late' = [late EXCEPT ![t] = FALSE]
    /\ UNCHANGED <<ringVars, runnable, role, wgVars, ret, view, poolVars, inserted, received,
                   closeDone>>

\* Get(): std::unique_lock lock(mtx)
CallGet(t) ==
    /\ MayCall(t)
    /\ mtx = Unlocked
    /\ mtx' = t
    /\ pc' = [pc EXCEPT ![t] = "get_pred"]
    /\ late' = [late EXCEPT ![t] = closeDone /\ num_data = 0]
    /\ UNCHANGED <<ringVars, runnable, role, wgVars, arg, ret, view, poolVars, inserted, received,
                   closeDone>>

\* Close()
CallClose(t) ==
    /\ MayCall(t)
    /\ pc' = [pc EXCEPT ![t] = "close_write"]
    /\ late' = [late EXCEPT ![t] = FALSE]
    /\ UNCHANGED <<ringVars, chanVars, role, wgVars, arg, ret, view, poolVars, inserted, received,
                   closeDone>>

\* the steps of Add, Get and Close that a thread inside a call takes
ChannelStep(t) ==
    \/ AddPred(t) \/ AddBlock(t) \/ AddRelock(t) \/ AddBody(t)
    \/ GetPred(t) \/ GetBlock(t) \/ GetRelock(t) \/ GetBody(t)
    \/ CloseWrite(t) \/ CloseNotify(t)

\* Channel<T>(n), used by NumThreads client threads
Init ==
    /\ \E n \in 0..MaxCap : RingInit(n)
    /\ runnable = TRUE
    /\ mtx = Unlocked
    /\ pc = [t \in Threads |-> "idle"]
    /\ role = [t \in Threads |-> "client"]
    /\ arg = [t \in Threads |-> NoValue]
    /\ ret = [t \in Threads |-> NoValue]
    /\ view = [t \in Threads |-> TRUE]
    /\ pool_runnable = TRUE
    /\ threads = FALSE
    /\ join_i = 0
    /\ executed = [k \in 1..MaxCalls |-> 0]
    /\ future = [k \in 1..MaxCalls |-> "pending"]
    /\ visit = 0
    /\ wg_adds = 0
    /\ wg_dones = 0
    /\ calls = 0
    /\ inserted = <<>>
    /\ received = <<>>
    /\ late = [t \in Threads |-> FALSE]
    /\ closeDone = FALSE
    /\ stops = 0
    /\ entered = 0

Next ==
    \E t \in Threads :
        \/ CallAdd(t) \/ CallGet(t) \/ CallClose(t)
        \/ ChannelStep(t)
        \/ SpuriousWake(t)

Spec == Init /\ [][Next]_vars

\* A thread that can again and again take a step of its call (the mutex is
\* free again and again) eventually takes it; a spurious wake-up and the
\* start of a new call are never owed.
FairSpec == Spec /\ \A t \in Threads : SF_vars(ChannelStep(t))

\* ---------------------------------------------------------- ThreadPool
\* Thread 1 owns the pool; threads[i] is thread i + 2.

num_threads == NumThreads - 1
Workers == {t \in Threads : role[t] = "worker"}

\* the values a worker's read of ThreadPool::runnable can return: Stop writes
\* it with no synchronisation, so until Stop's Close() has returned a read
\* may still return the old value
PoolObservable ==
    IF pool_runnable THEN {TRUE}
    ELSE IF ~closeDone THEN {TRUE, FALSE}
    ELSE {FALSE}

\* ThreadPool::Add: packaged_task, get_future, channel.Add(std::move(ptask)),
\* up to Add's std::unique_lock lock(mtx).  The owner submits before it
\* stops the pool.
PoolAdd(t) ==
    /\ role[t] = "main"
    /\ pc[t] = "m_idle"
    /\ pool_runnable
    /\ calls < MaxCalls
    /\ calls' = calls + 1
    /\ mtx = Unlocked
    /\ mtx' = t
    /\ arg' = [arg EXCEPT ![t] = calls + 1]
    /\ pc' = [pc EXCEPT ![t] = "add_pred"]
    /\ UNCHANGED <<ringVars, runnable, role, wgVars, ret, view, poolVars, inserted, received, late,
                   closeDone, entered>>

\* Stop (and ~ThreadPool, which calls it): if (threads != nullptr)
\* { runnable = false; channel.Close(); ... } else return
StopEnter(t) ==
    /\ role[t] = "main"
    /\ pc[t] = "m_idle"
    /\ stops < MaxStops
    /\ IF threads
       THEN /\ pool_runnable' = FALSE
            /\ pc' = [pc EXCEPT ![t] = "close_write"]
            /\ join_i' = 0
            /\ UNCHANGED stops
       ELSE /\ stops' = stops + 1
            /\ UNCHANGED <<pool_runnable, pc, join_i>>
    /\ UNCHANGED <<ringVars, chanVars, role, wgVars, arg, ret, view, threads, executed, future,
                   histVars>>

\* a join that does not wait (the thread detached)
JoinReturnsAtOnce(i) == TRUE

\* threads[i].join() returns when thread i has terminated
JoinReturns(i) == pc[i + 2] = "w_done"

\* for (i < num_threads) if (threads[i].joinable()) threads[i].join();
StopJoin(t) ==
    /\ pc[t] = "stop_join"
    /\ join_i < num_threads
    /\ JoinReturns(join_i)
    /\ join_i' = join_i + 1
    /\ UNCHANGED <<ringVars, chanVars, pc, role, wgVars, arg, ret, view, pool_runnable, threads,
                   executed, future, stops, histVars>>

\* a Stop that returns leaving `threads` set
StopReturnNoReset(t) ==
    /\ pc[t] = "stop_join"
    /\ join_i = num_threads
    /\ stops' = stops + 1
    /\ pc' = [pc EXCEPT ![t] = "m_idle"]
    /\ UNCHANGED <<ringVars, chanVars, role, wgVars, arg, ret, view, pool_runnable, threads,
                   join_i, executed, future, histVars>>

\* threads.reset(); and the return of Stop
StopReturn(t) ==
    /\ pc[t] = "stop_join"
    /\ join_i = num_threads
    /\ threads' = FALSE
    /\ stops' = stops + 1
    /\ pc' = [pc EXCEPT ![t] = "m_idle"]
    /\ UNCHANGED <<ringVars, chanVars, role, wgVars, arg, ret, view, pool_runnable, join_i,
                   executed, future, histVars>>

\* worker: while (runnable) { auto given = channel.Get();
WorkerLoop(t) ==
    /\ pc[t] = "w_loop"
    /\ \E r \in PoolObservable :
        pc' = [pc EXCEPT ![t] = IF r THEN "get_lock" ELSE "w_done"]
    /\ UNCHANGED <<ringVars, chanVars, role, wgVars, arg, ret, view, poolVars, histVars>>

\* a worker that tests the pool's flag again before it runs the task
WorkerGotChecksFlag(t) ==
    /\ pc[t] = "w_got"
    /\ \E r \in PoolObservable :
        pc' = [pc EXCEPT ![t] = IF ret[t] = NoValue \/ ~r THEN "w_done" ELSE "w_exec"]
    /\ UNCHANGED <<ringVars, chanVars, role, wgVars, arg, ret, view, poolVars, histVars>>

\* worker: if (!given.has_value()) break;
WorkerGot(t) ==
    /\ pc[t] = "w_got"
    /\ pc' = [pc EXCEPT ![t] = IF ret[t] = NoValue THEN "w_done" ELSE "w_exec"]
    /\ UNCHANGED <<ringVars, chanVars, role, wgVars, arg, ret, view, poolVars, histVars>>

\* a task called as a plain callable: an exception leaves the worker's
\* function, the thread ends and the result is never set
WorkerExecUncaught(t) ==
    /\ pc[t] = "w_exec"
    /\ executed' = [executed EXCEPT ![ret[t]] = @ + 1]
    /\ \E threw \in BOOLEAN :
        /\ future' = [future EXCEPT ![ret[t]] = IF threw THEN @ ELSE "value"]
        /\ pc' = [pc EXCEPT ![t] = IF threw THEN "w_done" ELSE "w_loop"]
    /\ UNCHANGED <<ringVars, chanVars, role, wgVars, arg, ret, view, pool_runnable, threads,
                   join_i, stops, histVars>>

\* worker: given.value()();  The task is a std::packaged_task (ThreadPool::Add):
\* its operator() runs the callable and stores the value it returns, or the
\* exception it throws, in the state shared with the future; nothing is thrown
\* to the worker, which goes round its loop.
WorkerExec(t) ==
    /\ pc[t] = "w_exec"
    /\ executed' = [executed EXCEPT ![ret[t]] = @ + 1]
    /\ \E threw \in BOOLEAN :
        future' = [future EXCEPT ![ret[t]] = IF threw THEN "exception" ELSE "value"]
    /\ pc' = [pc EXCEPT ![t] = "w_loop"]
    /\ UNCHANGED <<ringVars, chanVars, role, wgVars, arg, ret, view, pool_runnable, threads,
                   join_i, stops, histVars>>

PoolStep(t) ==
    \/ StopJoin(t) \/ StopReturn(t)
    \/ WorkerLoop(t) \/ GetLock(t) \/ WorkerGot(t) \/ WorkerExec(t)

\* ThreadPool(num_threads, n): the workers are started, the channel is empty
PoolInit ==
    /\ \E n \in 0..MaxCap : RingInit(n)
    /\ runnable = TRUE
    /\ mtx = Unlocked
    /\ role = [t \in Threads |-> IF t = 1 THEN "main" ELSE "worker"]
    /\ pc = [t \in Threads |-> IF t = 1 THEN "m_idle" ELSE "w_loop"]
    /\ arg = [t \in Threads |-> NoValue]
    /\ ret = [t \in Threads |-> NoValue]
    /\ view = [t \in Threads |-> TRUE]
    /\ pool_runnable = TRUE
    /\ threads = TRUE
    /\ join_i = 0
    /\ executed = [k \in 1..MaxCalls |-> 0]
    /\ future = [k \in 1..MaxCalls |-> "pending"]
    /\ visit = 0
    /\ wg_adds = 0
    /\ wg_dones = 0
    /\ calls = 0
    /\ inserted = <<>>
    /\ received = <<>>
    /\ late = [t \in Threads |-> FALSE]
    /\ closeDone = FALSE
    /\ stops = 0
    /\ entered = 0

PoolNext ==
    \E t \in Threads :
        \/ PoolAdd(t) \/ StopEnter(t)
        \/ ChannelStep(t)
        \/ PoolStep(t)
        \/ SpuriousWake(t)

PoolSpec == PoolInit /\ [][PoolNext]_vars

FairPoolSpec ==
    PoolSpec /\ \A t \in Threads : SF_vars(ChannelStep(t)) /\ WF_vars(PoolStep(t))

\* ----------------------------------------------------------- WaitGroup
\* std::atomic<unsigned long long> visit: every operation on it is one step.

\* unsigned long long arithmetic wraps; the model gives it the width of size_t
UllMod == 2 ^ SizeBits

\* a Done that stops at zero
WgDoneSaturating(t) ==
    /\ role[t] = "wg"
    /\ pc[t] = "idle"
    /\ calls < MaxCalls
    /\ calls' = calls + 1
    /\ visit' = IF visit = 0 THEN 0 ELSE visit - 1
    /\ wg_dones' = wg_dones + 1
    /\ ret' = [ret EXCEPT ![t] = visit']
    /\ UNCHANGED <<ringVars, chanVars, pc, role, arg, view, poolVars, wg_adds, inserted,
                   received, late, closeDone, entered>>

\* ull Add() { return (visit += 1); }
WgAdd(t) ==
    /\ role[t] = "wg"
    /\ pc[t] = "idle"
    /\ calls < MaxCalls
    /\ calls' = calls + 1
    /\ visit' = (visit + 1) % UllMod
    /\ wg_adds' = wg_adds + 1
    /\ ret' = [ret EXCEPT ![t] = visit']
    /\ UNCHANGED <<ringVars, chanVars, pc, role, arg, view, poolVars, wg_dones, inserted,
                   received, late, closeDone, entered>>

\* ull Done() { return (visit -= 1); }
WgDone(t) ==
    /\ role[t] = "wg"
    /\ pc[t] = "idle"
    /\ calls < MaxCalls
    /\ calls' = calls + 1
    /\ visit' = (visit - 1) % UllMod
    /\ wg_dones' = wg_dones + 1
    /\ ret' = [ret EXCEPT ![t] = visit']
    /\ UNCHANGED <<ringVars, chanVars, pc, role, arg, view, poolVars, wg_adds, inserted,
                   received, late, closeDone, entered>>

\* Wait() is called
WaitCall(t) ==
    /\ role[t] = "wg"
    /\ pc[t] = "idle"
    /\ pc' = [pc EXCEPT ![t] = "wg_test"]
    /\ UNCHANGED <<ringVars, chanVars, role, wgVars, arg, ret, view, poolVars, histVars>>

\* while (visit > 0): the loop is entered, or Wait returns
WaitTest(t) ==
    /\ pc[t] = "wg_test"
    /\ pc' = [pc EXCEPT ![t] = IF visit > 0 THEN "wg_yield" ELSE "idle"]
    /\ UNCHANGED <<ringVars, chanVars, role, wgVars, arg, ret, view, poolVars, histVars>>

\* std::this_thread::yield();
WaitYield(t) ==
    /\ pc[t] = "wg_yield"
    /\ pc' = [pc EXCEPT ![t] = "wg_test"]
    /\ UNCHANGED <<ringVars, chanVars, role, wgVars, arg, ret, view, poolVars, histVars>>

\* the steps of a thread inside Wait
WaitStep(t) == WaitTest(t) \/ WaitYield(t)

\* WaitGroup(), used by NumThreads threads
WGInit ==
    /\ RingInit(0)
    /\ runnable = TRUE
    /\ mtx = Unlocked
    /\ pc = [t \in Threads |-> "idle"]
    /\ role = [t \in Threads |-> "wg"]
    /\ arg = [t \in Threads |-> NoValue]
    /\ ret = [t \in Threads |-> NoValue]
    /\ view = [t \in Threads |-> TRUE]
    /\ pool_runnable = TRUE
    /\ threads = FALSE
    /\ join_i = 0
    /\ executed = [k \in 1..MaxCalls |-> 0]
    /\ future = [k \in 1..MaxCalls |-> "pending"]
    /\ visit = 0
    /\ wg_adds = 0
    /\ wg_dones = 0
    /\ calls = 0
    /\ inserted = <<>>
    /\ received = <<>>
    /\ late = [t \in Threads |-> FALSE]
    /\ closeDone = FALSE
    /\ stops = 0
    /\ entered = 0

WGNext ==
    \E t \in Threads :
        \/ WgAdd(t) \/ WgDone(t) \/ WaitCall(t)
        \/ WaitStep(t)

WGSpec == WGInit /\ [][WGNext]_vars

\* a thread inside Wait keeps running: it is scheduled again after each yield
FairWGSpec == WGSpec /\ \A t \in Threads : WF_vars(WaitStep(t))

\* ------------------------------------------------------------ properties

Elems(q) == {q[i] : i \in 1..Len(q)}
IsPrefix(p, q) == Len(p) <= Len(q) /\ \A i \in 1..Len(p) : p[i] = q[i]
AddPcs == {"add_pred", "add_block", "add_wait", "add_relock", "add_body"}
GetPcs == {"get_lock", "get_pred", "get_block", "get_wait", "get_relock", "get_body"}

\* C1: a Get returns end-of-stream only when the storage is empty, so the
\* items buffered when Close is called are still delivered.
C1_EndOfStreamOnlyWhenDrained ==
    [][\A t \in Threads :
        (pc[t] = "get_body" /\ pc'[t] = GetRet(t) /\ ret'[t] = NoValue)
            => num_data = 0]_vars

\* C2: an Add that is under way on a channel (of capacity at least 1) that
\* has been closed eventually returns.
C2_AddReturnsAfterClose ==
    \A t \in Threads :
        (pc[t] \in AddPcs /\ ~runnable /\ size_buffer > 0) ~> (pc[t] \notin AddPcs)

\* C3: a Get that is under way on a channel (of capacity at least 1) that
\* has been closed eventually returns.
C3_GetReturnsAfterClose ==
    \A t \in Threads :
        (pc[t] \in GetPcs /\ ~runnable /\ size_buffer > 0) ~> (pc[t] \notin GetPcs)

\* C4: the values Get has returned are, in order, the first values Add has
\* inserted (each inserted value is a distinct call's, so none is returned
\* twice and none is invented).
C4_Fifo ==
    /\ IsPrefix(received, inserted)
    /\ \A i, j \in 1..Len(inserted) : inserted[i] = inserted[j] => i = j

\* C4 witness: on a buffer of one slot a second value has been delivered, so
\* both indices have wrapped around
C4_Witness == size_buffer = 1 /\ Len(received) = 2

\* C5: the number of buffered elements never exceeds the capacity (and, the
\* count being unsigned, never wraps below zero).
C5_CountWithinCapacity == 0 <= num_data /\ num_data <= size_buffer

\* C5 witness: an Add passed its wait on a full buffer because of Close
C5_Witness ==
    \E t \in Threads :
        pc[t] = "add_body" /\ ~runnable /\ num_data = size_buffer /\ size_buffer > 0

\* C6: a Get that starts after Close has returned, on an empty buffer, never
\* waits on the condition variable and returns end-of-stream.
C6_GetAfterDrainIsEndOfStream ==
    \A t \in Threads :
        late[t] => /\ pc[t] \in {"get_pred", "get_body", "idle"}
                   /\ pc[t] = "idle" => ret[t] = NoValue

\* C6 witness: such a Get has returned, after items were delivered
C6_Witness ==
    \E t \in Threads : late[t] /\ pc[t] = "idle" /\ Len(received) > 0

\* C7 as stated: once a Get has freed a slot of the open channel, the Add
\* that was blocked eventually inserts its value (or the channel is closed).
C7_BlockedAddInserts ==
    \A t \in Threads :
        (pc[t] = "add_relock" /\ runnable /\ num_data < size_buffer)
            ~> (arg[t] \in Elems(inserted) \/ ~runnable)

\* C7 amended: an Add returns only when there was a free slot or the channel
\* was closed; no Add is left blocked beside a free slot; and an Add that has
\* been woken eventually returns (having inserted, or dropped its value on a
\* closed channel) or, the buffer being full again, waits again.
C7_Backpressure ==
    /\ [][\A t \in Threads :
            (pc[t] \in AddPcs /\ pc'[t] \notin AddPcs)
                => (num_data < size_buffer \/ ~runnable)]_vars
    /\ [](\A t \in Threads : pc[t] = "add_wait" => num_data = size_buffer)
    /\ \A t \in Threads :
            (pc[t] = "add_relock") ~> (pc[t] \notin AddPcs \/ pc[t] = "add_wait")

\* C7 witness: capacity 2, Add(1) and Add(2) inserted, Get returned 1 and
\* woke the blocked Add(3)
C7_Witness ==
    \E t \in Threads :
        /\ pc[t] = "add_relock" /\ arg[t] = 3
        /\ size_buffer = 2 /\ inserted = <<1, 2>> /\ received = <<1>>

\* C8: an Add that observes the channel closed leaves the storage as it was.
C8_ClosedAddLeavesStorage ==
    [][\A t \in Threads :
        (pc[t] = "add_body" /\ pc'[t] = AddRet(t) /\ ~view'[t])
            => UNCHANGED ringVars]_vars

\* C8 witness: an Add has returned without inserting its value
C8_Witness ==
    \E t \in Threads :
        /\ pc[t] = "idle" /\ arg[t] # NoValue /\ arg[t] \notin Elems(inserted)
        /\ num_data > 0

\* C9: once Stop has returned, every submitted task has run exactly once.
C9_EveryTaskRunsOnce ==
    stops > 0 => \A k \in 1..calls : executed[k] = 1

\* C10: once Stop has returned, every worker thread has terminated.
C10_StopJoinsWorkers ==
    stops > 0 => \A t \in Workers : pc[t] = "w_done"

\* C10 witness: Stop has returned after a worker executed a task
C10_Witness ==
    stops > 0 /\ \E k \in 1..MaxCalls : executed[k] > 0


\* C11: a task that throws has the failure recorded in its own result and in
\* no other; the worker that ran it does not end but goes round its loop, and
\* a result is set exactly when its task has been run.
C11_FailureStaysInItsResult ==
    /\ [][\A t \in Threads :
            (pc[t] = "w_exec" /\ pc'[t] # "w_exec")
                => /\ pc'[t] = "w_loop"
                   /\ future'[ret[t]] \in {"value", "exception"}
                   /\ \A k \in 1..MaxCalls : k # ret[t] => future'[k] = future[k]]_vars
    /\ [][\A k \in 1..MaxCalls : future'[k] # future[k] =>
            \E t \in Workers : pc[t] = "w_exec" /\ ret[t] = k]_vars
    /\ [](\A k \in 1..MaxCalls : (future[k] = "pending") <=> (executed[k] = 0))

\* C11 witness: the first task failed, and a task was run after it and
\* returned a value
C11_Witness ==
    /\ future[1] = "exception"
    /\ future[2] = "value"
    /\ \E t \in Workers : pc[t] = "w_exec" /\ ret[t] = 3

\* C12: a channel of capacity 0 is rejected when it is constructed, so in no
\* state is an Add waiting for room on an open channel of capacity 0.
C12_NoAddWaitsOnCapacityZero ==
    ~(size_buffer = 0 /\ runnable /\ \E t \in Threads : pc[t] = "add_wait")

\* C13: if from some point on Add and Done have been called the same number
\* of times, whatever the order of the calls, every Wait that is under way
\* returns; and a Wait that tests the counter when it is 0 returns without
\* yielding.
C13_WaitReturnsWhenBalanced ==
    /\ \A t \in Threads :
        <>[](wg_adds = wg_dones) => [](pc[t] = "wg_test" => <>(pc[t] = "idle"))
    /\ [][\A t \in Threads :
            (pc[t] = "wg_test" /\ visit = 0 /\ pc'[t] # pc[t]) => pc'[t] = "idle"]_vars

\* C13 witness: a Done was called before its Add, and a Wait that has found
\* the counter positive is under way when the calls are balanced again
C13_Witness ==
    /\ wg_adds = 1
    /\ wg_dones = 1
    /\ \E t, u \in Threads : ret[t] = UllMod - 1 /\ ret[u] = 0 /\ pc[u] = "idle"
    /\ \E t \in Threads : pc[t] = "wg_yield"

\* C18: a Wait that tests the counter when Done has been called at least as
\* often as Add (the counter of the calls is zero or below it) returns.
C18_WaitReturnsAtOrBelowZero ==
    [][\A t \in Threads :
        (pc[t] = "wg_test" /\ wg_adds - wg_dones <= 0 /\ pc'[t] # pc[t])
            => pc'[t] = "idle"]_vars

\* C14: the open flag never goes back from false to true, it is false once a
\* Close has returned, and the steps of a Close made on a channel that is
\* already closed leave the flag and the storage as they were.
C14_CloseIsOneWayAndIdempotent ==
    /\ [][~runnable => ~runnable']_vars
    /\ [](closeDone => ~runnable)
    /\ [][\A t \in Threads :
            (pc[t] \in {"close_write", "close_notify"} /\ pc'[t] # pc[t] /\ ~runnable)
                => UNCHANGED <<runnable, ringVars>>]_vars

\* C14 witness: a second Close has written the flag after a first Close
\* returned, with an item in the storage
C14_Witness ==
    /\ closeDone
    /\ num_data > 0
    /\ \E t \in Threads : pc[t] = "close_notify"

\* C15: a Stop (or the destructor) that follows a Stop that has returned
\* returns at once: it closes nothing, joins nothing and changes nothing of
\* the pool, of its channel or of its threads.
C15_StopIsIdempotent ==
    /\ [][(stops > 0 /\ stops' # stops) =>
            UNCHANGED <<ringVars, chanVars, pc, ret, view, pool_runnable, threads, join_i,
                        executed, future, closeDone>>]_vars
    /\ [](stops > 0 =>
            \A t \in Threads : role[t] = "main" => (pc[t] = "m_idle" /\ ~threads))

\* C15 witness: a second Stop has returned
C15_Witness ==
    /\ stops = 2
    /\ \A t \in Workers : pc[t] = "w_done"

\* C16: a Stop that has been entered on a running pool (of a channel of
\* capacity at least 1) returns, with every worker out of its loop, whatever
\* the workers are doing when it is called.
C16_StopReturns ==
    (~pool_runnable /\ size_buffer > 0) ~> (stops > 0 /\ \A t \in Workers : pc[t] = "w_done")

\* C17: every step that changes the open flag or the storage is taken by the
\* thread that holds the mutex.
C17_WritesUnderMutex ==
    [][(runnable' # runnable \/ ringVars' # ringVars)
        => (mtx # Unlocked /\ pc'[mtx] # pc[mtx])]_vars

\* C19: a task that a worker has taken from the channel has been run, or is
\* held by a worker that is about to run it, whether or not Stop has been
\* called since; a worker that holds a task goes on to run it and tests the
\* pool's flag only at the top of its loop.
C19_DequeuedTaskIsRun ==
    /\ [](\A i \in 1..Len(received) :
            \/ executed[received[i]] = 1
            \/ \E t \in Workers : pc[t] \in {"w_got", "w_exec"} /\ ret[t] = received[i])
    /\ [][\A t \in Threads :
            /\ (pc[t] = "w_got" /\ ret[t] # NoValue /\ pc'[t] # pc[t]) => pc'[t] = "w_exec"
            /\ (pc[t] = "w_exec" /\ pc'[t] # pc[t]) => executed'[ret[t]] = executed[ret[t]] + 1
       ]_vars

\* C19 witness: Stop has cleared the flag and closed the channel while a
\* worker holds a task it has not run yet
C19_Witness ==
    /\ ~pool_runnable
    /\ closeDone
    /\ \E t \in Workers : pc[t] = "w_got" /\ ret[t] # NoValue /\ executed[ret[t]] = 0

\* C20: in a ring buffer of capacity C >= 1 both indices are in 0..C-1, the
\* count is in 0..C, ptr_tail = (ptr_head + count) mod C, and the slots
\* ptr_head, ptr_head + 1, ... (mod C) hold, in order, the values inserted and
\* not yet removed.
C20_RingIndexInvariant ==
    size_buffer >= 1 =>
        /\ ptr_head \in 0..(size_buffer - 1)
        /\ ptr_tail \in 0..(size_buffer - 1)
        /\ 0 <= num_data /\ num_data <= size_buffer
        /\ ptr_tail = (ptr_head + num_data) % size_buffer
        /\ num_data = Len(inserted) - Len(received)
        /\ \A i \in 0..(num_data - 1) :
            buffer[(ptr_head + i) % size_buffer] = inserted[Len(received) + i + 1]

\* C20 witness: the indices have wrapped: the storage of capacity 2 is full
\* again after an item was removed, with ptr_tail back behind ptr_head
C20_Witness ==
    /\ size_buffer = 2
    /\ ptr_head = 1
    /\ ptr_tail = 1
    /\ num_data = 2
    /\ Len(received) = 1

=============================================================================
